---- MODULE Spec2Model ----
(***************************************************************************)
(* Model of the nimbleparse_lsp server skeleton (src/server/src/main.rs):  *)
(* the parser registry (State) with its three lookups, the custom request  *)
(* handler Backend::get_server_document, and the command line (main).      *)
(*                                                                         *)
(* Strings (paths, extensions, command names, arguments) are sequences of  *)
(* one-character strings, so that prefix/suffix tests, stripping, trimming *)
(* and Path::extension are computed and not assumed.                       *)
(***************************************************************************)
EXTENDS Integers, Sequences, FiniteSets, TLC

VARIABLES
  \* struct State (the registry behind Backend.state)
  extensions,            \* HashMap<OsString, ParserInfo>
  order,                 \* iteration order of extensions.values()
  toml,                  \* Workspaces
  client_monitor,
  warned_needs_restart,
  \* a caller of the registry methods
  call,                  \* the method called last and its arguments
  ids,                   \* the caller's Vec<usize>, as affected_parsers leaves it
  found,                 \* what parser_for / find_parser_info returned
  \* one get_server_document request
  pc,                    \* "idle", "lock" (awaiting state.lock()), "body", "return", "done"
  locked,                \* the tokio Mutex around State is held
  params,                \* ServerDocumentParams
  response,              \* what the handler returned
  parser_info,           \* local parser_info of the handler
  property,              \* local property of the stategraph branch
  pretty_printer,        \* local pretty_printer of the stategraph branch
  \* the process (main)
  argv,                  \* std::env::args()
  mpc,                   \* where main is
  called,                \* which of handle_workspace_arg, run_server_arg main called
  cfg_arg,               \* the path handed to handle_workspace_arg
  cfg_path,              \* the file handle_workspace_arg reads
  toml_file,             \* text read by handle_workspace_arg
  workspace,             \* the deserialized nimbleparse_toml::Workspace
  stdout,                \* what has been written to standard output
  exit,                  \* the Result main returned
  \* ingestion of workspace configurations
  next_id,               \* the next ParserId to hand out
  retired,               \* the ParserInfo entries that were replaced
  \* concurrent get_server_document requests
  rpc,                   \* per request: pc's values and "cancelled"
  holder,                \* the request holding the Mutex around State, 0 for none
  rparams,               \* per request: its ServerDocumentParams
  rresponse              \* per request: what the handler returned

state_vars == <<extensions, order, toml, client_monitor, warned_needs_restart>>
caller_vars == <<call, ids, found>>
request_vars == <<pc, locked, params, response, parser_info, property, pretty_printer>>
main_vars == <<argv, mpc, called, cfg_arg, cfg_path, toml_file, workspace, stdout, exit>>
ingest_vars == <<next_id, retired>>
conc_vars == <<rpc, holder, rparams, rresponse>>
vars == <<state_vars, caller_vars, request_vars, main_vars, ingest_vars, conc_vars>>

\* ------------------------------------------------------------------------
\* Bounds of the model
\* ------------------------------------------------------------------------
\* Largest number of ParserInfo entries in a registry.
MaxParsers == 2
\* ParserInfo ids are drawn from 0..MaxId.
MaxId == 1
\* Longest id list a caller hands to affected_parsers.
MaxIdsIn == 1
\* Longest id list affected_parsers is asked to add to.
MaxHeld == 2
\* Ingestion hands out the ids 0..MaxAllocated-1.
MaxAllocated == 3
\* Number of get_server_document requests in flight together.
MaxRequests == 2

\* ------------------------------------------------------------------------
\* Option<T>
\* ------------------------------------------------------------------------
None == [some |-> FALSE]
Some(v) == [some |-> TRUE, val |-> v]

\* ------------------------------------------------------------------------
\* str / Path primitives used by the program
\* ------------------------------------------------------------------------
starts_with(s, p) ==
  /\ Len(s) >= Len(p)
  /\ SubSeq(s, 1, Len(p)) = p

ends_with(s, x) ==
  /\ Len(s) >= Len(x)
  /\ SubSeq(s, Len(s) - Len(x) + 1, Len(s)) = x

strip_prefix(s, p) ==
  IF starts_with(s, p) THEN Some(SubSeq(s, Len(p) + 1, Len(s))) ELSE None

\* strip_suffix refusing to strip a string that is all suffix.
strip_suffix_proper(s, x) ==
  IF Len(s) > Len(x) /\ ends_with(s, x) THEN Some(SubSeq(s, 1, Len(s) - Len(x))) ELSE None

strip_suffix(s, x) ==
  IF ends_with(s, x) THEN Some(SubSeq(s, 1, Len(s) - Len(x))) ELSE None

\* Index of the last occurrence of character c in s, 0 when there is none.
LastIndexOf(s, c) ==
  LET hits == {i \in 1..Len(s) : s[i] = c}
  IN IF hits = {} THEN 0 ELSE CHOOSE i \in hits : \A j \in hits : j <= i

\* Path::file_name: the last normal component; trailing separators and
\* trailing "." components are skipped, a final ".." has no file name.
RECURSIVE file_name(_)
file_name(path) ==
  LET i == LastIndexOf(path, "/")
      name == SubSeq(path, i + 1, Len(path))
  IN IF name = <<>> \/ name = <<".">>
       THEN IF i = 0 THEN None
            ELSE IF i = 1 THEN None ELSE file_name(SubSeq(path, 1, i - 1))
       ELSE IF name = <<".", ".">> THEN None ELSE Some(name)

\* Path::extension: the part of the file name after its last ".", when the
\* file name has a "." that is not its first character.
extension(path) ==
  LET fname == file_name(path)
  IN IF ~fname.some THEN None
     ELSE LET name == fname.val
              dot == LastIndexOf(name, ".")
          IN IF dot = 0 \/ dot = 1 THEN None
             ELSE Some(SubSeq(name, dot + 1, Len(name)))

\* ------------------------------------------------------------------------
\* Vec<usize> primitives
\* ------------------------------------------------------------------------
RECURSIVE Insert(_, _)
Insert(x, s) ==
  IF s = <<>> THEN <<x>>
  ELSE IF x <= Head(s) THEN <<x>> \o s
  ELSE <<Head(s)>> \o Insert(x, Tail(s))

\* Vec::sort_unstable (usize keys: the result is the ascending arrangement).
RECURSIVE sort_unstable(_)
sort_unstable(s) ==
  IF s = <<>> THEN <<>> ELSE Insert(Head(s), sort_unstable(Tail(s)))

\* Vec::dedup: removes consecutive repeated elements only.
RECURSIVE dedup(_)
dedup(s) ==
  IF Len(s) <= 1 THEN s
  ELSE IF s[1] = s[2] THEN dedup(Tail(s))
  ELSE <<s[1]>> \o dedup(Tail(s))

\* ------------------------------------------------------------------------
\* Inputs: paths, extensions, ids
\* ------------------------------------------------------------------------
P_g_y == <<"g", ".", "y">>
P_h_y == <<"h", ".", "y">>
P_s_l == <<"s", ".", "l">>
P_lexer == <<"l", "e", "x">>
P_x_b == <<"x", ".", "b">>
P_x_c == <<"x", ".", "c">>
P_dot_y == <<".", "y">>
P_dir == <<"d", ".", "y", "/", "f">>

\* Lexer and grammar files a workspace may declare.
LPaths == {P_s_l, P_lexer}
YPaths == {P_g_y, P_h_y}
\* Paths the methods are asked about.
Paths == {P_g_y, P_h_y, P_s_l, P_lexer, P_x_b, P_x_c, P_dot_y, P_dir}
\* Extensions a workspace may register.
ExtKeys == {<<"y">>, <<"l">>, <<"b">>}
Ids == 0..MaxId

EmptyMap == [k \in {} |-> 0]

\* struct ParserInfo; recovery_kind, yacc_kind and quiet are read by none of
\* the modelled code and are left out.
ParserInfos(ext) == [id : Ids, l_path : LPaths, y_path : YPaths, extension : {ext}]

\* The registries: an entry per registered extension, every entry filed
\* under its own extension, ids unique.
Registries ==
  UNION { { m \in [K -> UNION {ParserInfos(e) : e \in K}] :
              /\ \A k \in K : m[k].extension = k
              /\ \A j, k \in K : j # k => m[j].id # m[k].id }
          : K \in {X \in SUBSET ExtKeys : Cardinality(X) <= MaxParsers} }

\* The orders in which a HashMap with key set K may iterate.
Orders(K) ==
  { o \in [1..Cardinality(K) -> K] : \A i, j \in 1..Cardinality(K) : i # j => o[i] # o[j] }

\* Lists a caller may hand to affected_parsers.
IdLists == UNION { [1..n -> Ids] : n \in 0..MaxIdsIn }

\* ------------------------------------------------------------------------
\* impl State
\* ------------------------------------------------------------------------
\* self.extensions.values(), in the map's iteration order.
values(exts, ord) == [i \in 1..Len(ord) |-> exts[ord[i]]]

\* HashMap::get
get(exts, key) == IF key \in DOMAIN exts THEN Some(exts[key]) ELSE None

IdsOf(infos) == [i \in 1..Len(infos) |-> infos[i].id]

\* affected_parsers without the sort: dedup then sees only neighbours.
affected_parsers_unsorted(exts, ord, path, ids_in) ==
  LET ext == extension(path)
  IN IF ~ext.some THEN ids_in
     ELSE LET info == get(exts, ext.val)
              pushed == IF info.some THEN Append(ids_in, info.val.id) ELSE ids_in
              Touches(p) == path = p.l_path \/ path = p.y_path
              extended == pushed \o IdsOf(SelectSeq(values(exts, ord), Touches))
          IN dedup(extended)

\* affected_parsers matching the grammar path only, not the lexer path.
affected_parsers_grammar_only(exts, ord, path, ids_in) ==
  LET ext == extension(path)
  IN IF ~ext.some THEN ids_in
     ELSE LET info == get(exts, ext.val)
              pushed == IF info.some THEN Append(ids_in, info.val.id) ELSE ids_in
              Touches(p) == path = p.y_path
              extended == pushed \o IdsOf(SelectSeq(values(exts, ord), Touches))
          IN dedup(sort_unstable(extended))

\* affected_parsers with only the extension lookup inside the `if let`: the
\* path search runs for every path.
affected_parsers_ungated(exts, ord, path, ids_in) ==
  LET ext == extension(path)
      info == IF ext.some THEN get(exts, ext.val) ELSE None
      pushed == IF info.some THEN Append(ids_in, info.val.id) ELSE ids_in
      Touches(p) == path = p.l_path \/ path = p.y_path
      extended == pushed \o IdsOf(SelectSeq(values(exts, ord), Touches))
  IN dedup(sort_unstable(extended))

\* affected_parsers without the dedup.
affected_parsers_undeduped(exts, ord, path, ids_in) ==
  LET ext == extension(path)
  IN IF ~ext.some THEN ids_in
     ELSE LET info == get(exts, ext.val)
              pushed == IF info.some THEN Append(ids_in, info.val.id) ELSE ids_in
              Touches(p) == path = p.l_path \/ path = p.y_path
              extended == pushed \o IdsOf(SelectSeq(values(exts, ord), Touches))
          IN sort_unstable(extended)

\* affected_parsers with sort and dedup moved out of the `if let`.
affected_parsers_tidying(exts, ord, path, ids_in) ==
  LET ext == extension(path)
  IN IF ~ext.some THEN dedup(sort_unstable(ids_in))
     ELSE LET info == get(exts, ext.val)
              pushed == IF info.some THEN Append(ids_in, info.val.id) ELSE ids_in
              Touches(p) == path = p.l_path \/ path = p.y_path
              extended == pushed \o IdsOf(SelectSeq(values(exts, ord), Touches))
          IN dedup(sort_unstable(extended))

affected_parsers(exts, ord, path, ids_in) ==
  LET ext == extension(path)
  IN IF ~ext.some THEN ids_in
     ELSE LET info == get(exts, ext.val)
              pushed == IF info.some THEN Append(ids_in, info.val.id) ELSE ids_in
              Touches(p) == path = p.l_path \/ path = p.y_path
              extended == pushed \o IdsOf(SelectSeq(values(exts, ord), Touches))
          IN dedup(sort_unstable(extended))

\* find_parser_info that also accepts the lexer file of a parser.
find_parser_info_any_file(exts, ord, parser_path) ==
  LET IsIt(p) == p.y_path = parser_path \/ p.l_path = parser_path
      hits == SelectSeq(values(exts, ord), IsIt)
  IN IF hits = <<>> THEN None ELSE Some(Head(hits))

find_parser_info(exts, ord, parser_path) ==
  LET IsIt(p) == p.y_path = parser_path
      hits == SelectSeq(values(exts, ord), IsIt)
  IN IF hits = <<>> THEN None ELSE Some(Head(hits))

\* parser_for taking whatever follows the last "." of the whole path as the
\* extension.
parser_for_last_dot(exts, path) ==
  LET dot == LastIndexOf(path, ".")
  IN IF dot = 0 THEN None ELSE get(exts, SubSeq(path, dot + 1, Len(path)))

\* parser_for keyed by the file stem instead of the extension.
parser_for_file_stem(exts, path) ==
  LET name == file_name(path)
      dot == IF name.some THEN LastIndexOf(name.val, ".") ELSE 0
  IN IF dot <= 1 THEN None ELSE get(exts, SubSeq(name.val, 1, dot - 1))

parser_for(exts, path) ==
  LET ext == extension(path)
  IN IF ~ext.some THEN None ELSE get(exts, ext.val)

\* ------------------------------------------------------------------------
\* Initial values of the parts a specification leaves alone
\* ------------------------------------------------------------------------
NoCall == [op |-> "none", path |-> <<>>, ids_in |-> <<>>]
NoParams == [cmd |-> <<>>, path |-> <<>>]
NoResponse == [kind |-> "none"]
NoExit == [kind |-> "running"]

CallerIdle == call = NoCall /\ ids = <<>> /\ found = None

RequestIdle ==
  /\ pc = "idle" /\ locked = FALSE /\ params = NoParams /\ response = NoResponse
  /\ parser_info = None /\ property = None /\ pretty_printer = None

MainServing ==
  /\ argv = <<>> /\ mpc = "serving" /\ called = {"run_server_arg"}
  /\ cfg_arg = None /\ cfg_path = None /\ toml_file = None
  /\ workspace = None /\ stdout = <<>> /\ exit = NoExit

\* The requests a client may have in flight.
Requests == 1..MaxRequests

\* No configuration was ingested by the model; the allocator is past the
\* ids of the drawn registry.
IngestIdle == next_id = MaxId + 1 /\ retired = {}

ConcIdle ==
  /\ rpc = [r \in Requests |-> "idle"]
  /\ holder = 0
  /\ rparams = [r \in Requests |-> NoParams]
  /\ rresponse = [r \in Requests |-> NoResponse]

\* A registry State with some parsers registered.
SomeState ==
  /\ extensions \in Registries
  /\ order \in Orders(DOMAIN extensions)
  /\ toml = EmptyMap
  /\ client_monitor = FALSE
  /\ warned_needs_restart = FALSE

\* ------------------------------------------------------------------------
\* The registry methods, called one at a time on a State
\* ------------------------------------------------------------------------
AffectedParsers(path, ids_in) ==
  /\ call = NoCall
  /\ call' = [op |-> "affected_parsers", path |-> path, ids_in |-> ids_in]
  /\ ids' = affected_parsers(extensions, order, path, ids_in)
  /\ found' = None
  /\ UNCHANGED <<state_vars, request_vars, main_vars, ingest_vars, conc_vars>>

FindParserInfo(path) ==
  /\ call = NoCall
  /\ call' = [op |-> "find_parser_info", path |-> path, ids_in |-> <<>>]
  /\ found' = find_parser_info(extensions, order, path)
  /\ ids' = <<>>
  /\ UNCHANGED <<state_vars, request_vars, main_vars, ingest_vars, conc_vars>>

ParserFor(path) ==
  /\ call = NoCall
  /\ call' = [op |-> "parser_for", path |-> path, ids_in |-> <<>>]
  /\ found' = parser_for(extensions, path)
  /\ ids' = <<>>
  /\ UNCHANGED <<state_vars, request_vars, main_vars, ingest_vars, conc_vars>>

\* The caller takes the result; the next call starts afresh.
Return ==
  /\ call # NoCall
  /\ call' = NoCall
  /\ ids' = <<>>
  /\ found' = None
  /\ UNCHANGED <<state_vars, request_vars, main_vars, ingest_vars, conc_vars>>

Init ==
  SomeState /\ CallerIdle /\ RequestIdle /\ MainServing /\ IngestIdle /\ ConcIdle

Next ==
  \/ \E path \in Paths, ids_in \in IdLists : AffectedParsers(path, ids_in)
  \/ \E path \in Paths : FindParserInfo(path)
  \/ \E path \in Paths : ParserFor(path)
  \/ Return

Spec == Init /\ [][Next]_vars

\* ------------------------------------------------------------------------
\* affected_parsers on a list that already holds ids
\* ------------------------------------------------------------------------
\* The lists a caller has gathered so far, in any order, repeats included.
HeldLists == UNION { [1..n -> Ids] : n \in 0..MaxHeld }
\* A grammar file, a lexer file with and one without extension, and a file
\* without extension below a directory with one.
HeldPaths == {P_g_y, P_s_l, P_lexer, P_dir}

NextAccumulate ==
  \/ \E path \in HeldPaths, ids_in \in HeldLists : AffectedParsers(path, ids_in)
  \/ Return

SpecAccumulate == Init /\ [][NextAccumulate]_vars

\* ------------------------------------------------------------------------
\* impl Backend: get_server_document
\* ------------------------------------------------------------------------
\* The string literals of the handler.
L_generictree_cmd == <<"g", "e", "n", "e", "r", "i", "c", "t", "r", "e", "e", ".", "c", "m", "d">>
L_stategraph_ == <<"s", "t", "a", "t", "e", "g", "r", "a", "p", "h", "_">>
L_dot_cmd == <<".", "c", "m", "d">>
L_railroad_svg == <<"r", "a", "i", "l", "r", "o", "a", "d", ".", "s", "v", "g">>
L_core_states == <<"c", "o", "r", "e", "_", "s", "t", "a", "t", "e", "s">>
L_closed_states == <<"c", "l", "o", "s", "e", "d", "_", "s", "t", "a", "t", "e", "s">>
L_core_edges == <<"c", "o", "r", "e", "_", "e", "d", "g", "e", "s">>
L_all_edges == <<"a", "l", "l", "_", "e", "d", "g", "e", "s">>

\* jsonrpc::Result<Option<String>>; a panic of the handler is an outcome too.
Ok(v) == [kind |-> "Ok", value |-> v]
Err(code, message, data) == [kind |-> "Err", code |-> code, message |-> message, data |-> data]
Panicked == [kind |-> "panic"]

\* The match on property: the StateGraphPretty variant, or none for `_`.
StateGraphPretty(prop) ==
  IF prop = L_core_states THEN Some("CoreStates")
  ELSE IF prop = L_closed_states THEN Some("ClosedStates")
  ELSE IF prop = L_core_edges THEN Some("CoreEdges")
  ELSE IF prop = L_all_edges THEN Some("AllEdges")
  ELSE None

\* What the handler leaves behind: its response and the locals it bound.
Outcome(resp, info, prop, pretty) ==
  [response |-> resp, parser_info |-> info, property |-> prop, pretty_printer |-> pretty]

\* get_server_document reporting the path, not the command, in the error.
get_server_document_data_path(exts, ord, p) ==
  IF p.cmd = L_generictree_cmd
    THEN Outcome(Ok(None), parser_for(exts, p.path), None, None)
  ELSE IF starts_with(p.cmd, L_stategraph_) /\ ends_with(p.cmd, L_dot_cmd)
    THEN LET info == find_parser_info(exts, ord, p.path)
             stripped == strip_prefix(p.cmd, L_stategraph_)
             prop == IF stripped.some THEN strip_suffix(stripped.val, L_dot_cmd) ELSE None
         IN IF ~prop.some THEN Outcome(Panicked, info, None, None)
            ELSE IF info.some
              THEN Outcome(Ok(None), info, prop, StateGraphPretty(prop.val))
              ELSE Outcome(Ok(None), info, prop, None)
  ELSE IF starts_with(p.cmd, L_railroad_svg) /\ ends_with(p.cmd, L_dot_cmd)
    THEN Outcome(Ok(None), find_parser_info(exts, ord, p.path), None, None)
  ELSE Outcome(Err("InvalidParams", "Unknown command name", Some(p.path)), None, None, None)

\* get_server_document answering an unrecognized property with the
\* unknown-command error.
get_server_document_strict_property(exts, ord, p) ==
  IF p.cmd = L_generictree_cmd
    THEN Outcome(Ok(None), parser_for(exts, p.path), None, None)
  ELSE IF starts_with(p.cmd, L_stategraph_) /\ ends_with(p.cmd, L_dot_cmd)
    THEN LET info == find_parser_info(exts, ord, p.path)
             stripped == strip_prefix(p.cmd, L_stategraph_)
             prop == IF stripped.some THEN strip_suffix(stripped.val, L_dot_cmd) ELSE None
         IN IF ~prop.some THEN Outcome(Panicked, info, None, None)
            ELSE IF info.some
              THEN IF StateGraphPretty(prop.val).some
                     THEN Outcome(Ok(None), info, prop, StateGraphPretty(prop.val))
                     ELSE Outcome(Err("InvalidParams", "Unknown command name", Some(p.cmd)),
                                  info, prop, None)
              ELSE Outcome(Ok(None), info, prop, None)
  ELSE IF starts_with(p.cmd, L_railroad_svg) /\ ends_with(p.cmd, L_dot_cmd)
    THEN Outcome(Ok(None), find_parser_info(exts, ord, p.path), None, None)
  ELSE Outcome(Err("InvalidParams", "Unknown command name", Some(p.cmd)), None, None, None)

\* get_server_document with the state graph view filled in where the FIXME is.
get_server_document_with_view(exts, ord, p) ==
  IF p.cmd = L_generictree_cmd
    THEN Outcome(Ok(None), parser_for(exts, p.path), None, None)
  ELSE IF starts_with(p.cmd, L_stategraph_) /\ ends_with(p.cmd, L_dot_cmd)
    THEN LET info == find_parser_info(exts, ord, p.path)
             stripped == strip_prefix(p.cmd, L_stategraph_)
             prop == IF stripped.some THEN strip_suffix(stripped.val, L_dot_cmd) ELSE None
         IN IF ~prop.some THEN Outcome(Panicked, info, None, None)
            ELSE IF info.some
              THEN IF StateGraphPretty(prop.val).some
                     THEN Outcome(Ok(StateGraphPretty(prop.val)), info, prop,
                                  StateGraphPretty(prop.val))
                     ELSE Outcome(Ok(None), info, prop, None)
              ELSE Outcome(Ok(None), info, prop, None)
  ELSE IF starts_with(p.cmd, L_railroad_svg) /\ ends_with(p.cmd, L_dot_cmd)
    THEN Outcome(Ok(None), find_parser_info(exts, ord, p.path), None, None)
  ELSE Outcome(Err("InvalidParams", "Unknown command name", Some(p.cmd)), None, None, None)

\* The body of get_server_document, run with the lock on State held.
get_server_document(exts, ord, p) ==
  IF p.cmd = L_generictree_cmd
    THEN Outcome(Ok(None), parser_for(exts, p.path), None, None)
  ELSE IF starts_with(p.cmd, L_stategraph_) /\ ends_with(p.cmd, L_dot_cmd)
    THEN LET info == find_parser_info(exts, ord, p.path)
             stripped == strip_prefix(p.cmd, L_stategraph_)
             prop == IF stripped.some THEN strip_suffix(stripped.val, L_dot_cmd) ELSE None
         IN IF ~prop.some THEN Outcome(Panicked, info, None, None)
            ELSE IF info.some
              THEN Outcome(Ok(None), info, prop, StateGraphPretty(prop.val))
              ELSE Outcome(Ok(None), info, prop, None)
  ELSE IF starts_with(p.cmd, L_railroad_svg) /\ ends_with(p.cmd, L_dot_cmd)
    THEN Outcome(Ok(None), find_parser_info(exts, ord, p.path), None, None)
  ELSE Outcome(Err("InvalidParams", "Unknown command name", Some(p.cmd)), None, None, None)

\* Command names and paths of the requests.
L_not_a_real_cmd == <<"n", "o", "t", "_", "a", "_", "r", "e", "a", "l", ".", "c", "m", "d">>
Properties == {L_core_states, L_closed_states, L_core_edges, L_all_edges, <<>>, <<"x">>}
Cmds ==
  {L_generictree_cmd, L_not_a_real_cmd, <<>>, L_dot_cmd, L_stategraph_, L_railroad_svg}
  \cup {L_stategraph_ \o prop \o L_dot_cmd : prop \in Properties}
  \cup {L_railroad_svg \o x \o L_dot_cmd : x \in {<<>>, <<"2">>}}
  \cup {L_stategraph_ \o L_core_states, L_generictree_cmd \o <<"x">>,
        <<"x">> \o L_generictree_cmd, <<"x">> \o L_stategraph_ \o L_all_edges \o L_dot_cmd}
RequestPaths == {P_g_y, P_h_y, P_s_l, P_x_b, P_lexer}

\* A request arrives and waits for the lock on State.
GsdCall(cmd, path) ==
  /\ pc = "idle"
  /\ pc' = "lock"
  /\ params' = [cmd |-> cmd, path |-> path]
  /\ response' = NoResponse
  /\ parser_info' = None
  /\ property' = None
  /\ pretty_printer' = None
  /\ UNCHANGED <<locked, state_vars, caller_vars, main_vars, ingest_vars, conc_vars>>

\* self.state.lock().await completes.
GsdLock ==
  /\ pc = "lock"
  /\ ~locked
  /\ locked' = TRUE
  /\ pc' = "body"
  /\ UNCHANGED <<params, response, parser_info, property, pretty_printer,
                 state_vars, caller_vars, main_vars, ingest_vars, conc_vars>>

\* A handler that notes a needed restart on the State it has locked.
GsdBody_warns ==
  /\ pc = "body"
  /\ LET out == get_server_document(extensions, order, params)
     IN /\ response' = out.response
        /\ parser_info' = out.parser_info
        /\ property' = out.property
        /\ pretty_printer' = out.pretty_printer
  /\ warned_needs_restart' = TRUE
  /\ pc' = "return"
  /\ UNCHANGED <<locked, params, extensions, order, toml, client_monitor, caller_vars,
                 main_vars, ingest_vars, conc_vars>>

\* The rest of the handler up to its return value; the guard is still alive.
GsdBody ==
  /\ pc = "body"
  /\ LET out == get_server_document(extensions, order, params)
     IN /\ response' = out.response
        /\ parser_info' = out.parser_info
        /\ property' = out.property
        /\ pretty_printer' = out.pretty_printer
  /\ pc' = "return"
  /\ UNCHANGED <<locked, params, state_vars, caller_vars, main_vars, ingest_vars,
                 conc_vars>>

\* The handler returns or unwinds: the guard `state` goes out of scope.
GsdReturn ==
  /\ pc = "return"
  /\ locked' = FALSE
  /\ pc' = "done"
  /\ UNCHANGED <<params, response, parser_info, property, pretty_printer,
                 state_vars, caller_vars, main_vars, ingest_vars, conc_vars>>

\* The response has gone to the client; the next request may come.
GsdDone ==
  /\ pc = "done"
  /\ pc' = "idle"
  /\ params' = NoParams
  /\ response' = NoResponse
  /\ parser_info' = None
  /\ property' = None
  /\ pretty_printer' = None
  /\ UNCHANGED <<locked, state_vars, caller_vars, main_vars, ingest_vars, conc_vars>>

NextDispatch ==
  \/ \E cmd \in Cmds, path \in RequestPaths : GsdCall(cmd, path)
  \/ GsdLock
  \/ GsdBody
  \/ GsdReturn
  \/ GsdDone

SpecDispatch == Init /\ [][NextDispatch]_vars

\* ------------------------------------------------------------------------
\* Concurrent get_server_document requests on one Backend
\* ------------------------------------------------------------------------
\* One command of each outcome: a result, the early return of an unknown
\* property, the unknown-command error.
ConcCmds ==
  {L_generictree_cmd, L_stategraph_ \o L_core_states \o L_dot_cmd,
   L_stategraph_ \o <<"x">> \o L_dot_cmd, L_not_a_real_cmd}
ConcPaths == {P_g_y, P_x_b}

\* The State the requests share.
ConcState ==
  /\ extensions = [k \in {<<"y">>, <<"b">>} |->
                     [id |-> IF k = <<"y">> THEN 0 ELSE 1, l_path |-> P_s_l,
                      y_path |-> IF k = <<"y">> THEN P_g_y ELSE P_h_y, extension |-> k]]
  /\ order = << <<"y">>, <<"b">> >>
  /\ toml = EmptyMap
  /\ client_monitor = FALSE
  /\ warned_needs_restart = FALSE

\* Request r arrives; its future first awaits the lock on State.
ConcCall(r, cmd, path) ==
  /\ rpc[r] = "idle"
  /\ rpc' = [rpc EXCEPT ![r] = "lock"]
  /\ rparams' = [rparams EXCEPT ![r] = [cmd |-> cmd, path |-> path]]
  /\ UNCHANGED <<holder, rresponse, state_vars, caller_vars, request_vars, main_vars,
                 ingest_vars>>

\* The Mutex handed to whoever asked, held or not.
ConcLock_no_wait(r) ==
  /\ rpc[r] = "lock"
  /\ holder' = r
  /\ rpc' = [rpc EXCEPT ![r] = "body"]
  /\ UNCHANGED <<rparams, rresponse, state_vars, caller_vars, request_vars, main_vars,
                 ingest_vars>>

\* self.state.lock().await of request r completes: the Mutex was free.
ConcLock(r) ==
  /\ rpc[r] = "lock"
  /\ holder = 0
  /\ holder' = r
  /\ rpc' = [rpc EXCEPT ![r] = "body"]
  /\ UNCHANGED <<rparams, rresponse, state_vars, caller_vars, request_vars, main_vars,
                 ingest_vars>>

\* The caller abandons request r: its future is dropped at the one await
\* point of the handler, before the lock was acquired.
ConcCancel(r) ==
  /\ rpc[r] = "lock"
  /\ rpc' = [rpc EXCEPT ![r] = "cancelled"]
  /\ UNCHANGED <<holder, rparams, rresponse, state_vars, caller_vars, request_vars,
                 main_vars, ingest_vars>>

\* The rest of the handler of request r, up to its return value.
ConcBody(r) ==
  /\ rpc[r] = "body"
  /\ rresponse' = [rresponse EXCEPT
                     ![r] = get_server_document(extensions, order, rparams[r]).response]
  /\ rpc' = [rpc EXCEPT ![r] = "return"]
  /\ UNCHANGED <<holder, rparams, state_vars, caller_vars, request_vars, main_vars,
                 ingest_vars>>

\* A handler that keeps the lock when it answers with an error.
ConcReturn_keeps_on_error(r) ==
  /\ rpc[r] = "return"
  /\ holder' = IF holder = r /\ rresponse[r].kind = "Ok" THEN 0 ELSE holder
  /\ rpc' = [rpc EXCEPT ![r] = "done"]
  /\ UNCHANGED <<rparams, rresponse, state_vars, caller_vars, request_vars, main_vars,
                 ingest_vars>>

\* The handler of request r returns or unwinds: its guard is dropped.
ConcReturn(r) ==
  /\ rpc[r] = "return"
  /\ holder' = IF holder = r THEN 0 ELSE holder
  /\ rpc' = [rpc EXCEPT ![r] = "done"]
  /\ UNCHANGED <<rparams, rresponse, state_vars, caller_vars, request_vars, main_vars,
                 ingest_vars>>

\* The response of request r has gone out, or nobody waits for it any more.
ConcDone(r) ==
  /\ rpc[r] \in {"done", "cancelled"}
  /\ rpc' = [rpc EXCEPT ![r] = "idle"]
  /\ rparams' = [rparams EXCEPT ![r] = NoParams]
  /\ rresponse' = [rresponse EXCEPT ![r] = NoResponse]
  /\ UNCHANGED <<holder, state_vars, caller_vars, request_vars, main_vars, ingest_vars>>

InitConc ==
  ConcState /\ CallerIdle /\ RequestIdle /\ MainServing /\ IngestIdle /\ ConcIdle

NextConc ==
  \/ \E r \in Requests, cmd \in ConcCmds, path \in ConcPaths : ConcCall(r, cmd, path)
  \/ \E r \in Requests : ConcLock(r)
  \/ \E r \in Requests : ConcCancel(r)
  \/ \E r \in Requests : ConcBody(r)
  \/ \E r \in Requests : ConcReturn(r)
  \/ \E r \in Requests : ConcDone(r)

\* Past its await the handler has no suspension point and no loop: the task
\* that holds the lock runs on to its return.
SpecConc ==
  /\ InitConc
  /\ [][NextConc]_vars
  /\ \A r \in Requests : WF_vars(ConcBody(r)) /\ WF_vars(ConcReturn(r))

\* ------------------------------------------------------------------------
\* main, handle_workspace_arg, run_server_arg
\* ------------------------------------------------------------------------
L_workspace == <<"-", "-", "w", "o", "r", "k", "s", "p", "a", "c", "e">>
L_server == <<"-", "-", "s", "e", "r", "v", "e", "r">>
L_nimbleparse_toml == <<"n", "i", "m", "b", "l", "e", "p", "a", "r", "s", "e", ".", "t", "o", "m", "l">>

\* char::is_whitespace, for the characters the arguments are made of.
WhiteSpace == {" ", "\t", "\n", "\r"}

RECURSIVE trim_start(_)
trim_start(s) ==
  IF s # <<>> /\ Head(s) \in WhiteSpace THEN trim_start(Tail(s)) ELSE s

RECURSIVE trim_end(_)
trim_end(s) ==
  IF s # <<>> /\ s[Len(s)] \in WhiteSpace THEN trim_end(SubSeq(s, 1, Len(s) - 1)) ELSE s

\* trim that strips the front only.
trim_front_only(s) == trim_start(s)

\* str::trim
trim(s) == trim_end(trim_start(s))

\* Path::join of a relative name.
join(path, name) ==
  IF path = <<>> \/ path[Len(path)] = "/" THEN path \o name ELSE path \o <<"/">> \o name

\* Result<(), ServerError> of main.
OkUnit == [kind |-> "Ok"]
ServerError(e) == [kind |-> "Err", error |-> e]

\* What standard output receives.
UsageLine(exec_file) == [what |-> "usage", exec_file |-> exec_file]
JsonOf(ws) == [what |-> "json", workspace |-> ws]
PartialJson == [what |-> "partial json"]

\* Command lines: the program's own path, then the arguments.
ArgvZeros == {<<"n", "l">>, <<"/", "b", "/", "n", "l">>}
FirstArgs ==
  {L_workspace, L_server, <<" ">> \o L_server, L_server \o <<"\n">>,
   <<"\t">> \o L_workspace \o <<" ">>, L_server \o <<"s">>, <<"-", "x">>, <<>>, <<" ">>}
SecondArgs == {<<"w">>, <<"c", ".", "t">>}
Argvs ==
  {<<z>> : z \in ArgvZeros}
  \cup {<<z, a>> : z \in ArgvZeros, a \in FirstArgs}
  \cup {<<z, a, f>> : z \in ArgvZeros, a \in FirstArgs, f \in SecondArgs}

\* Configuration texts a file may hold, and what toml::de::from_str makes of
\* them: a Workspace, or a deserialization error.
Texts == {"valid", "invalid"}
\* from_str that falls back to a default Workspace on malformed text.
from_str_or_default(text) == Some("Workspace")

from_str(text) == IF text = "valid" THEN Some("Workspace") ELSE None

\* main up to the call it ends in.
Main ==
  /\ mpc = "start"
  /\ LET exec_file == IF Len(argv) = 0 THEN None ELSE file_name(argv[1])
     IN IF ~exec_file.some
          THEN /\ exit' = Panicked
               /\ mpc' = "exited"
               /\ UNCHANGED <<called, cfg_arg, stdout>>
        ELSE IF Len(argv) >= 2
          THEN LET arg == trim(argv[2])
               IN IF arg = L_workspace
                    THEN IF Len(argv) >= 3
                           THEN /\ called' = {"handle_workspace_arg"}
                                /\ cfg_arg' = Some(argv[3])
                                /\ mpc' = "hwa_read"
                                /\ UNCHANGED <<exit, stdout>>
                           ELSE /\ exit' = ServerError("RequiresPath")
                                /\ mpc' = "exited"
                                /\ UNCHANGED <<called, cfg_arg, stdout>>
                  ELSE IF arg = L_server
                    THEN /\ called' = {"run_server_arg"}
                         /\ mpc' = "server"
                         /\ UNCHANGED <<exit, cfg_arg, stdout>>
                  ELSE /\ exit' = ServerError("UnknownArgument")
                       /\ mpc' = "exited"
                       /\ UNCHANGED <<called, cfg_arg, stdout>>
        ELSE /\ stdout' = Append(stdout, UsageLine(exec_file.val))
             /\ exit' = OkUnit
             /\ mpc' = "exited"
             /\ UNCHANGED <<called, cfg_arg>>
  /\ UNCHANGED <<argv, cfg_path, toml_file, workspace, state_vars, caller_vars, request_vars,
                 ingest_vars, conc_vars>>

\* handle_workspace_arg: pick the configuration file and read it.
HwaRead(is_dir, read) ==
  /\ mpc = "hwa_read"
  /\ cfg_path' = Some(IF is_dir THEN join(cfg_arg.val, L_nimbleparse_toml) ELSE cfg_arg.val)
  /\ IF read.some
       THEN /\ toml_file' = read
            /\ mpc' = "hwa_deser"
            /\ UNCHANGED exit
       ELSE /\ exit' = ServerError("IO")
            /\ mpc' = "exited"
            /\ UNCHANGED toml_file
  /\ UNCHANGED <<argv, called, cfg_arg, workspace, stdout, state_vars, caller_vars, request_vars,
                 ingest_vars, conc_vars>>

\* handle_workspace_arg: deserialize the text.
HwaDeser ==
  /\ mpc = "hwa_deser"
  /\ IF from_str(toml_file.val).some
       THEN /\ workspace' = from_str(toml_file.val)
            /\ mpc' = "hwa_write"
            /\ UNCHANGED exit
       ELSE /\ exit' = ServerError("TomlDeserialization")
            /\ mpc' = "exited"
            /\ UNCHANGED workspace
  /\ UNCHANGED <<argv, called, cfg_arg, cfg_path, toml_file, stdout, state_vars, caller_vars,
                 request_vars, ingest_vars, conc_vars>>

\* handle_workspace_arg: write the workspace as JSON; a failing writer may
\* have let part of it through.
HwaWrite(written) ==
  /\ mpc = "hwa_write"
  /\ stdout' = IF written = "nothing" THEN stdout
               ELSE IF written = "part" THEN Append(stdout, PartialJson)
               ELSE Append(stdout, JsonOf(workspace.val))
  /\ exit' = IF written = "all" THEN OkUnit ELSE ServerError("JsonSerialization")
  /\ mpc' = "exited"
  /\ UNCHANGED <<argv, called, cfg_arg, cfg_path, toml_file, workspace, state_vars, caller_vars,
                 request_vars, ingest_vars, conc_vars>>

\* run_server_arg: build the runtime and the service around a new State.
RunServer(built) ==
  /\ mpc = "server"
  /\ IF built
       THEN /\ mpc' = "serving"
            /\ extensions' = EmptyMap
            /\ order' = <<>>
            /\ toml' = EmptyMap
            /\ warned_needs_restart' = FALSE
            /\ client_monitor' = FALSE
            /\ UNCHANGED exit
       ELSE /\ exit' = ServerError("IO")
            /\ mpc' = "exited"
            /\ UNCHANGED state_vars
  /\ UNCHANGED <<argv, called, cfg_arg, cfg_path, toml_file, workspace, stdout, caller_vars,
                 request_vars, ingest_vars, conc_vars>>

\* The server has served until its input closed; run_server_arg returns.
ServeEnd ==
  /\ mpc = "serving"
  /\ exit' = OkUnit
  /\ mpc' = "exited"
  /\ UNCHANGED <<argv, called, cfg_arg, cfg_path, toml_file, workspace, stdout, state_vars,
                 caller_vars, request_vars, ingest_vars, conc_vars>>

\* The process before main runs: no State exists yet.
InitMain ==
  /\ argv \in Argvs
  /\ mpc = "start" /\ called = {} /\ cfg_arg = None /\ cfg_path = None
  /\ toml_file = None /\ workspace = None /\ stdout = <<>> /\ exit = NoExit
  /\ extensions = EmptyMap /\ order = <<>> /\ toml = EmptyMap
  /\ client_monitor = FALSE /\ warned_needs_restart = FALSE
  /\ CallerIdle /\ RequestIdle /\ IngestIdle /\ ConcIdle

NextMain ==
  \/ Main
  \/ \E is_dir \in BOOLEAN, read \in {Some(t) : t \in Texts} \cup {None} : HwaRead(is_dir, read)
  \/ HwaDeser
  \/ \E written \in {"all", "part", "nothing"} : HwaWrite(written)
  \/ \E built \in BOOLEAN : RunServer(built)
  \/ ServeEnd

SpecMain == InitMain /\ [][NextMain]_vars

\* ------------------------------------------------------------------------
\* Ingestion of a workspace configuration
\* ------------------------------------------------------------------------
\* The grammars a nimbleparse.toml may declare.
Declarations == [l_path : {P_s_l}, y_path : YPaths, extension : {<<"y">>, <<"b">>}]

\* A workspace configuration: its declared grammars, in file order.
WorkspaceConfigs ==
  {<<d>> : d \in Declarations} \cup {<<c, d>> : c \in Declarations, d \in Declarations}

\* The workspace roots.
Roots == {P_dir}

\* HashMap::insert
insert(map, key, value) ==
  [k \in DOMAIN map \cup {key} |-> IF k = key THEN value ELSE map[k]]

\* Each declared grammar becomes a ParserInfo with the next id and is filed
\* under its extension, in place of the entry the extension had.
RECURSIVE register(_, _, _, _)
register(exts, gone, decls, id) ==
  IF decls = <<>> THEN [exts |-> exts, gone |-> gone]
  ELSE LET d == Head(decls)
           info == [id |-> id, l_path |-> d.l_path, y_path |-> d.y_path,
                    extension |-> d.extension]
           old == IF d.extension \in DOMAIN exts THEN {exts[d.extension]} ELSE {}
       IN register(insert(exts, d.extension, info), gone \cup old, Tail(decls), id + 1)

\* The configuration of a workspace root is ingested, or ingested again.
Ingest(root, config) ==
  /\ call = NoCall
  /\ next_id + Len(config) <= MaxAllocated
  /\ LET r == register(extensions, retired, config, next_id)
     IN /\ extensions' = r.exts
        /\ retired' = r.gone
  /\ order' \in Orders(DOMAIN extensions')
  /\ toml' = insert(toml, root, config)
  /\ next_id' = next_id + Len(config)
  /\ UNCHANGED <<client_monitor, warned_needs_restart, caller_vars, request_vars,
                 main_vars, conc_vars>>

InitIngest ==
  /\ extensions = EmptyMap /\ order = <<>> /\ toml = EmptyMap
  /\ client_monitor = FALSE /\ warned_needs_restart = FALSE
  /\ next_id = 0 /\ retired = {}
  /\ CallerIdle /\ RequestIdle /\ MainServing /\ ConcIdle

NextIngest ==
  \/ \E root \in Roots, config \in WorkspaceConfigs : Ingest(root, config)
  \/ \E path \in Paths : AffectedParsers(path, <<>>)
  \/ \E path \in Paths : FindParserInfo(path)
  \/ \E path \in Paths : ParserFor(path)
  \/ Return

SpecIngest == InitIngest /\ [][NextIngest]_vars

\* ------------------------------------------------------------------------
\* Vocabulary of the properties
\* ------------------------------------------------------------------------
Range(s) == {s[i] : i \in 1..Len(s)}

StrictlyAscending(s) == \A i \in 1..(Len(s) - 1) : s[i] < s[i + 1]

\* path names a file "<stem>.<e>": its last component ends in "." followed
\* by e, e holds no "." and something other than a separator precedes the ".".
HasExtension(path, e) ==
  LET n == Len(path)
      k == Len(e)
  IN /\ "." \notin Range(e)
     /\ "/" \notin Range(e)
     /\ n >= k + 2
     /\ SubSeq(path, n - k + 1, n) = e
     /\ path[n - k] = "."
     /\ path[n - k - 1] # "/"
     /\ ~(k = 0 /\ path[n - 1] = "." /\ (n = 2 \/ path[n - 2] = "/"))

HasSomeExtension(path) ==
  \E k \in 0..Len(path) : HasExtension(path, SubSeq(path, Len(path) - k + 1, Len(path)))

\* The registered parsers whose lexer or grammar file is path.
TouchedBy(path) ==
  {k \in DOMAIN extensions : extensions[k].l_path = path \/ extensions[k].y_path = path}

\* affected_parsers(path) of the registry: the method run on a new, empty list.
AffectedCall == call.op = "affected_parsers" /\ call.ids_in = <<>>

\* ------------------------------------------------------------------------
\* C1
\* ------------------------------------------------------------------------
\* C1: for every registry and every path, with or without an extension, the
\* id list affected_parsers(path) produces is sorted ascending and holds no
\* id twice.
C1_SortedNoDuplicates == AffectedCall => StrictlyAscending(ids)

\* The owning parser (by extension) is also found by its grammar path, and a
\* second parser that shares the file iterates first with a larger id: both
\* the sort and the dedup have acted.
C1_Witness ==
  /\ AffectedCall
  /\ Len(ids) = 2
  /\ extension(call.path).some
  /\ extension(call.path).val \in DOMAIN extensions
  /\ extension(call.path).val \in TouchedBy(call.path)
  /\ Cardinality(TouchedBy(call.path)) = 2
  /\ extensions[order[1]].id > extensions[order[2]].id

\* ------------------------------------------------------------------------
\* C2
\* ------------------------------------------------------------------------
\* C2 as stated: for every registry and every path, with or without an
\* extension, affected_parsers(path) contains the id of every registered
\* ParserInfo whose lexer or grammar path is path.
C2_ContainsEveryTouched ==
  AffectedCall => \A k \in TouchedBy(call.path) : extensions[k].id \in Range(ids)

\* C2 amended: the same for every path that has a file extension.
C2_ContainsEveryTouchedWithExtension ==
  (AffectedCall /\ HasSomeExtension(call.path))
    => \A k \in TouchedBy(call.path) : extensions[k].id \in Range(ids)

\* A lexer shared by two parsers, neither of which owns the lexer's extension:
\* both ids come from the path search alone.
C2_Witness ==
  /\ AffectedCall
  /\ HasSomeExtension(call.path)
  /\ Cardinality(TouchedBy(call.path)) = 2
  /\ \A k \in TouchedBy(call.path) : extensions[k].l_path = call.path
  /\ extension(call.path).val \notin DOMAIN extensions
  /\ Len(ids) = 2

\* ------------------------------------------------------------------------
\* C3
\* ------------------------------------------------------------------------
\* Two parsers registered under distinct extensions with the lexer call.path.
SharedLexer(g1, g2) ==
  /\ g1 \in DOMAIN extensions
  /\ g2 \in DOMAIN extensions
  /\ g1 # g2
  /\ extensions[g1].l_path = call.path
  /\ extensions[g2].l_path = call.path

ExactlyTheTwo(g1, g2) ==
  /\ Range(ids) = {extensions[g1].id, extensions[g2].id}
  /\ StrictlyAscending(ids)

\* C3 as stated: if L is the lexer of two registered grammars G1 and G2 with
\* distinct extensions, affected_parsers(L) is exactly their two ids in
\* ascending order.
C3_SharedLexerExactlyTwo ==
  AffectedCall =>
    \A g1, g2 \in ExtKeys : SharedLexer(g1, g2) => ExactlyTheTwo(g1, g2)

\* C3 amended: the same when L has a file extension and no third registered
\* parser owns L's extension or has L as its lexer or grammar file.
C3_SharedLexerExactlyTwoAmended ==
  AffectedCall =>
    \A g1, g2 \in ExtKeys :
      ( /\ SharedLexer(g1, g2)
        /\ HasSomeExtension(call.path)
        /\ \A k \in DOMAIN extensions \ {g1, g2} :
             /\ ~HasExtension(call.path, k)
             /\ k \notin TouchedBy(call.path) )
      => ExactlyTheTwo(g1, g2)

\* The shared lexer has an extension, the map iterates the larger id first,
\* and the two ids come back ascending.
C3_Witness ==
  /\ AffectedCall
  /\ HasSomeExtension(call.path)
  /\ \E g1, g2 \in ExtKeys :
       /\ SharedLexer(g1, g2)
       /\ order = <<g1, g2>>
       /\ extensions[g1].id > extensions[g2].id
       /\ ids = <<extensions[g2].id, extensions[g1].id>>

\* ------------------------------------------------------------------------
\* C4
\* ------------------------------------------------------------------------
\* C4: for every registry, affected_parsers of a path with no file extension
\* is empty.
C4_NoExtensionEmpty ==
  (AffectedCall /\ ~HasSomeExtension(call.path)) => ids = <<>>

\* The path has no extension and yet is the lexer file of a registered parser.
C4_Witness ==
  /\ AffectedCall
  /\ ~HasSomeExtension(call.path)
  /\ TouchedBy(call.path) # {}
  /\ ids = <<>>

\* ------------------------------------------------------------------------
\* C5
\* ------------------------------------------------------------------------
ParserForCall == call.op = "parser_for"

\* parser_for returns the entry filed under the path's extension, and nothing
\* for a path with no extension or an unregistered one.
C5_LooksUpByExtension ==
  ParserForCall =>
    /\ \A e \in DOMAIN extensions :
         HasExtension(call.path, e) => found = Some(extensions[e])
    /\ (~\E e \in DOMAIN extensions : HasExtension(call.path, e)) => found = None

\* C5: parser_for looks up strictly by file extension (the registered entry
\* for a path with a registered extension, nothing otherwise) and a call of
\* parser_for never changes the registry.
C5_ParserFor ==
  /\ [] C5_LooksUpByExtension
  /\ [][ParserForCall' => state_vars' = state_vars]_vars

\* A path with a registered extension that is no parser's lexer or grammar
\* file gets the parser by its extension alone.
C5_Witness ==
  /\ ParserForCall
  /\ found.some
  /\ HasExtension(call.path, found.val.extension)
  /\ TouchedBy(call.path) = {}

\* ------------------------------------------------------------------------
\* C6
\* ------------------------------------------------------------------------
FindCall == call.op = "find_parser_info"

\* The registered parsers whose grammar file is path.
GrammarOf(path) == {k \in DOMAIN extensions : extensions[k].y_path = path}

\* The key of GrammarOf(path) the map iterates first.
FirstGrammarOf(path) ==
  order[CHOOSE i \in 1..Len(order) :
          /\ order[i] \in GrammarOf(path)
          /\ \A j \in 1..(i - 1) : order[j] \notin GrammarOf(path)]

\* C6 as stated: find_parser_info(path) returns the unique registered
\* ParserInfo whose grammar path is path, and nothing for a path that is no
\* registered grammar path.
C6_FindsTheUnique ==
  FindCall =>
    /\ GrammarOf(call.path) = {} => found = None
    /\ GrammarOf(call.path) # {} =>
         /\ found.some
         /\ \A k \in GrammarOf(call.path) : found.val = extensions[k]

\* C6 amended: find_parser_info(path) returns a registered ParserInfo whose
\* grammar path is path, the first of them in the map's iteration order when
\* several parsers share the grammar file, and nothing for a path that is no
\* registered grammar path (whatever its extension, lexer file or not).
C6_FindsFirstByGrammarPath ==
  FindCall =>
    /\ GrammarOf(call.path) = {} => found = None
    /\ GrammarOf(call.path) # {} =>
         found = Some(extensions[FirstGrammarOf(call.path)])

\* Two parsers share the grammar file and the one iterated first is returned.
C6_Witness ==
  /\ FindCall
  /\ Cardinality(GrammarOf(call.path)) = 2
  /\ found = Some(extensions[order[1]])

\* A lexer file whose extension is registered is no grammar file: nothing.
C6_WitnessNothing ==
  /\ FindCall
  /\ found = None
  /\ \E k \in DOMAIN extensions : extensions[k].l_path = call.path
  /\ \E e \in DOMAIN extensions : HasExtension(call.path, e)

\* ------------------------------------------------------------------------
\* Vocabulary of the dispatch properties
\* ------------------------------------------------------------------------
\* cmd is pre, then some x (possibly empty), then suf.
HasForm(cmd, pre, suf) ==
  /\ Len(cmd) >= Len(pre) + Len(suf)
  /\ \A i \in 1..Len(pre) : cmd[i] = pre[i]
  /\ \A i \in 1..Len(suf) : cmd[Len(cmd) - Len(suf) + i] = suf[i]

\* The <x> of a cmd of the form pre<x>suf.
Middle(cmd, pre, suf) == SubSeq(cmd, Len(pre) + 1, Len(cmd) - Len(suf))

IsGenericTree(cmd) == cmd = L_generictree_cmd
IsStateGraph(cmd) == HasForm(cmd, L_stategraph_, L_dot_cmd)
IsRailroad(cmd) == HasForm(cmd, L_railroad_svg, L_dot_cmd)
Recognized(cmd) == IsGenericTree(cmd) \/ IsStateGraph(cmd) \/ IsRailroad(cmd)

\* The request has been answered.
Answered == pc = "done"

\* ------------------------------------------------------------------------
\* C7
\* ------------------------------------------------------------------------
\* C7: a command name that is not generictree.cmd, stategraph_<x>.cmd or
\* railroad.svg<x>.cmd is answered, for every path and registry, with the
\* invalid-params error "Unknown command name" whose data is the command
\* string; a command name of one of the three forms is never answered with
\* an error.
C7_UnknownCommandError ==
  Answered =>
    IF Recognized(params.cmd)
      THEN response.kind # "Err"
      ELSE response = [kind |-> "Err", code |-> "InvalidParams",
                       message |-> "Unknown command name",
                       data |-> Some(params.cmd)]

\* A command that begins like a stategraph command but lacks the suffix,
\* sent for the grammar file of a registered parser, is refused.
C7_Witness ==
  /\ Answered
  /\ starts_with(params.cmd, L_stategraph_)
  /\ ~Recognized(params.cmd)
  /\ GrammarOf(params.path) # {}
  /\ response.kind = "Err"
  /\ response.data = Some(params.cmd)

\* ------------------------------------------------------------------------
\* C8
\* ------------------------------------------------------------------------
KnownProperties == {L_core_states, L_closed_states, L_core_edges, L_all_edges}

\* The path of the request resolves to no parser, the way its command
\* family resolves it.
Unresolved ==
  \/ /\ IsGenericTree(params.cmd)
     /\ ~\E e \in DOMAIN extensions : HasExtension(params.path, e)
  \/ /\ IsStateGraph(params.cmd) \/ IsRailroad(params.cmd)
     /\ GrammarOf(params.path) = {}

UnknownProperty ==
  /\ IsStateGraph(params.cmd)
  /\ Middle(params.cmd, L_stategraph_, L_dot_cmd) \notin KnownProperties

\* C8: in each recognized command family a path that resolves to no parser,
\* and in the stategraph family a property other than core_states,
\* closed_states, core_edges, all_edges, gets the empty result, not an error.
C8_EmptyNotError ==
  (Answered /\ Recognized(params.cmd) /\ (Unresolved \/ UnknownProperty))
    => response = [kind |-> "Ok", value |-> None]

\* An unrecognized property asked of a registered grammar file.
C8_Witness ==
  /\ Answered
  /\ UnknownProperty
  /\ Middle(params.cmd, L_stategraph_, L_dot_cmd) # <<>>
  /\ parser_info.some
  /\ response = [kind |-> "Ok", value |-> None]

\* ------------------------------------------------------------------------
\* C9
\* ------------------------------------------------------------------------
ViewKind(prop) ==
  CASE prop = L_core_states -> "CoreStates"
    [] prop = L_closed_states -> "ClosedStates"
    [] prop = L_core_edges -> "CoreEdges"
    [] prop = L_all_edges -> "AllEdges"

\* A stategraph request with a known property for a registered grammar file.
StateGraphOfGrammar ==
  /\ Answered
  /\ IsStateGraph(params.cmd)
  /\ Middle(params.cmd, L_stategraph_, L_dot_cmd) \in KnownProperties
  /\ GrammarOf(params.path) # {}

\* The resolution half of C9: the parser is found by grammar path and the
\* property is mapped to its view kind.
StateGraphResolution ==
  StateGraphOfGrammar =>
    /\ parser_info = Some(extensions[FirstGrammarOf(params.path)])
    /\ pretty_printer = Some(ViewKind(Middle(params.cmd, L_stategraph_, L_dot_cmd)))

\* C9: a stategraph_<property>.cmd request for a registered grammar file
\* resolves the parser by grammar path, maps the property to its view kind,
\* and the response is the requested view of that parser (an artifact, which
\* the view kind determines).
C9_ViewDeterminesResponse ==
  StateGraphOfGrammar =>
    /\ parser_info = Some(extensions[FirstGrammarOf(params.path)])
    /\ pretty_printer = Some(ViewKind(Middle(params.cmd, L_stategraph_, L_dot_cmd)))
    /\ response.kind = "Ok"
    /\ response.value.some

\* ------------------------------------------------------------------------
\* C10
\* ------------------------------------------------------------------------
\* main has run up to the call it ends in (or to its return).
MainRan == mpc # "start"

PrintsUsage ==
  /\ called = {}
  /\ Len(stdout) = 1
  /\ stdout[1].what = "usage"
  /\ exit = [kind |-> "Ok"]

DumpsConfigOf(path) == called = {"handle_workspace_arg"} /\ cfg_arg = Some(path)

StartsServer == called = {"run_server_arg"} /\ cfg_arg = None

FailsWith(e) ==
  /\ called = {}
  /\ stdout = <<>>
  /\ exit = [kind |-> "Err", error |-> e]

\* a is lit with nothing but white space before and after it.
Padded(a, lit) ==
  \E i \in 0..(Len(a) - Len(lit)) :
    /\ \A j \in 1..i : a[j] \in WhiteSpace
    /\ \A j \in 1..Len(lit) : a[i + j] = lit[j]
    /\ \A j \in (i + Len(lit) + 1)..Len(a) : a[j] \in WhiteSpace

\* C10 as stated: by first argument, none => usage and success; --workspace
\* and a path => config dump of that path; --workspace alone => RequiresPath;
\* --server => the server is started; any other first argument =>
\* UnknownArgument, nothing dumped and no server started.
C10_OutcomeByFirstArgument ==
  MainRan =>
    IF Len(argv) = 1 THEN PrintsUsage
    ELSE IF argv[2] = L_workspace
      THEN IF Len(argv) >= 3 THEN DumpsConfigOf(argv[3]) ELSE FailsWith("RequiresPath")
    ELSE IF argv[2] = L_server THEN StartsServer
    ELSE FailsWith("UnknownArgument")

\* C10 amended: the same with the first argument compared after the white
\* space around it is removed.
C10_OutcomeByTrimmedFirstArgument ==
  MainRan =>
    IF Len(argv) = 1 THEN PrintsUsage
    ELSE IF Padded(argv[2], L_workspace)
      THEN IF Len(argv) >= 3 THEN DumpsConfigOf(argv[3]) ELSE FailsWith("RequiresPath")
    ELSE IF Padded(argv[2], L_server) THEN StartsServer
    ELSE FailsWith("UnknownArgument")

\* --server followed by a line end starts the server.
C10_Witness ==
  /\ MainRan
  /\ Len(argv) >= 2
  /\ argv[2] # L_server
  /\ argv[2][Len(argv[2])] \in WhiteSpace
  /\ Padded(argv[2], L_server)
  /\ StartsServer

\* ------------------------------------------------------------------------
\* C11
\* ------------------------------------------------------------------------
DumpMode == called = {"handle_workspace_arg"}

\* C11: config-dump mode reads, then deserializes, then writes: when the file
\* cannot be read or its text does not deserialize, the operation ends in
\* the IO or deserialization error with nothing written to standard output;
\* output is written only after a successful deserialization.
C11_WritesOnlyAfterDeserialization ==
  DumpMode =>
    /\ workspace.some => toml_file.some
    /\ stdout # <<>> => workspace.some
    /\ exit = [kind |-> "Err", error |-> "IO"] => (toml_file = None /\ stdout = <<>>)
    /\ toml_file = Some("invalid") =>
         /\ stdout = <<>>
         /\ workspace = None
         /\ mpc = "exited" => exit = [kind |-> "Err", error |-> "TomlDeserialization"]

\* A file that was read and did not deserialize: the error, nothing written.
C11_Witness ==
  /\ DumpMode
  /\ toml_file = Some("invalid")
  /\ exit = [kind |-> "Err", error |-> "TomlDeserialization"]
  /\ stdout = <<>>

\* ------------------------------------------------------------------------
\* C12
\* ------------------------------------------------------------------------
RetiredIds == {old.id : old \in retired}

\* C12: once ingestion has replaced the ParserInfo of an extension, the
\* registry files only the new entry under it: parser_for on a path with that
\* extension returns the entry now registered, and no later parser_for,
\* find_parser_info or affected_parsers call returns the id of a replaced
\* entry.
C12_ReplacedNeverReturned ==
  /\ \A k \in DOMAIN extensions : extensions[k].id \notin RetiredIds
  /\ ParserForCall =>
       \A e \in DOMAIN extensions :
         HasExtension(call.path, e) => found = Some(extensions[e])
  /\ found.some => found.val.id \notin RetiredIds
  /\ AffectedCall => Range(ids) \cap RetiredIds = {}

\* parser_for answered for an extension whose earlier entry, declared with
\* another grammar, was replaced.
C12_Witness ==
  /\ ParserForCall
  /\ found.some
  /\ \E old \in retired :
       /\ old.extension = found.val.extension
       /\ old.y_path # found.val.y_path
       /\ old.id # found.val.id

\* ------------------------------------------------------------------------
\* C13
\* ------------------------------------------------------------------------
\* C13: the lock on the registry is held only while the ParserInfo is
\* resolved: by the time the handler has produced what it answers (the step
\* where the artifact is made), the lock has been released.
C13_LockReleasedBeforeAnswer == response # NoResponse => ~locked

\* ------------------------------------------------------------------------
\* C14
\* ------------------------------------------------------------------------
\* The requests that are past state.lock() and have not returned.
InRegistry == {r \in Requests : rpc[r] \in {"body", "return"}}

\* C14: under every interleaving of concurrent requests at most one of them
\* is inside the registry, and a request that looks something up holds the
\* one lock on State while it does.
C14_MutualExclusion ==
  /\ Cardinality(InRegistry) <= 1
  /\ \A r \in InRegistry : holder = r

\* One request is inside the registry while another waits for the lock.
C14_Witness ==
  \E r, w \in Requests : r # w /\ rpc[r] = "body" /\ holder = r /\ rpc[w] = "lock"

\* ------------------------------------------------------------------------
\* C15
\* ------------------------------------------------------------------------
\* C15: a request that acquired the lock releases it on every outcome, and
\* only a request still running holds it: a finished or cancelled request
\* never keeps a waiting one from the lock.
C15_LockEventuallyReleased ==
  /\ [](holder # 0 => rpc[holder] \in {"body", "return"})
  /\ \A r \in Requests : (holder = r) ~> (holder # r)

\* A request holds the lock after another, answered with an error, gave it up.
C15_Witness ==
  \E r, w \in Requests :
    /\ r # w
    /\ rpc[r] = "done" /\ rresponse[r].kind = "Err"
    /\ rpc[w] = "body" /\ holder = w

\* ------------------------------------------------------------------------
\* C16
\* ------------------------------------------------------------------------
\* C16: no step of get_server_document, whatever the command, path and
\* outcome, changes the registry: the extension map, the workspace map, the
\* client-monitor flag and the warned-needs-restart flag stay as they were.
C16_RegistryUnchanged ==
  [][UNCHANGED <<extensions, toml, client_monitor, warned_needs_restart>>]_vars

\* A request on a State with parsers registered was answered with an error.
C16_Witness ==
  /\ Answered
  /\ extensions # EmptyMap
  /\ response.kind = "Err"
  /\ ~warned_needs_restart

\* ------------------------------------------------------------------------
\* C17
\* ------------------------------------------------------------------------
\* The handler is past its body.
BodyRan == pc \in {"return", "done"}

\* The test of the stategraph branch, as the handler makes it.
PassesStateGraphTest ==
  starts_with(params.cmd, L_stategraph_) /\ ends_with(params.cmd, L_dot_cmd)

\* C17: the handler aborts on no command: when a command starts with
\* "stategraph_" and ends with ".cmd", both strips succeed and the property
\* is what lies between the two; for "stategraph_.cmd" the property is the
\* empty string and the answer the empty result.
C17_NeverAborts ==
  /\ response # Panicked
  /\ BodyRan /\ PassesStateGraphTest =>
       /\ property.some
       /\ params.cmd = L_stategraph_ \o property.val \o L_dot_cmd
  /\ BodyRan /\ params.cmd = L_stategraph_ \o L_dot_cmd =>
       /\ property = Some(<<>>)
       /\ response = Ok(None)

\* "stategraph_.cmd" was answered for the grammar file of a registered parser.
C17_Witness ==
  /\ Answered
  /\ params.cmd = L_stategraph_ \o L_dot_cmd
  /\ parser_info.some
  /\ property = Some(<<>>)
  /\ response = Ok(None)

\* ------------------------------------------------------------------------
\* C18
\* ------------------------------------------------------------------------
\* The ids affected_parsers finds for path: the parser filed under its
\* extension and the parsers whose lexer or grammar file it is.
FoundFor(path) ==
  {extensions[k].id : k \in {e \in DOMAIN extensions : HasExtension(path, e)} \cup TouchedBy(path)}

\* C18: affected_parsers adds to the list it is handed: for a path without
\* extension the list comes back exactly as passed (order and repeats kept);
\* for a path with an extension it comes back as the ascending,
\* duplicate-free union of the ids it held and the ids found for the path.
C18_Accumulates ==
  call.op = "affected_parsers" =>
    IF ~HasSomeExtension(call.path)
      THEN ids = call.ids_in
      ELSE /\ StrictlyAscending(ids)
           /\ Range(ids) = Range(call.ids_in) \cup FoundFor(call.path)

\* An unsorted list came back untouched for a lexer file without extension
\* that a registered parser uses.
C18_WitnessUntouched ==
  /\ call.op = "affected_parsers"
  /\ call.path = P_lexer
  /\ TouchedBy(P_lexer) # {}
  /\ call.ids_in = <<1, 0>>
  /\ ids = <<1, 0>>

\* ------------------------------------------------------------------------
\* C19
\* ------------------------------------------------------------------------
\* C19: every response of get_server_document that is not an error is the
\* empty result, whatever the command, the path and the registry, a
\* recognized command on the file of a registered parser included.
C19_OkIsEmpty == response.kind = "Ok" => response.value = None

\* A state graph command with a known property was answered for the grammar
\* file of a registered parser.
C19_Witness ==
  /\ Answered
  /\ IsStateGraph(params.cmd)
  /\ parser_info.some
  /\ pretty_printer.some
  /\ response = Ok(None)

====
